---- MODULE Spec2Model ----
(***************************************************************************)
(* Model of rig_sfm_custom.py: loading Blender camera poses, deriving a    *)
(* COLMAP rig configuration per capture folder, and the run() pipeline     *)
(* that scans the folders and drives the external SfM engine.              *)
(*                                                                         *)
(* Matrices are tuples of rows with integer entries.  Every pose the model *)
(* draws has determinant -1, 0 or 1, so that numpy's inverse is exactly    *)
(* representable (adjugate divided by the determinant).                    *)
(***************************************************************************)
EXTENDS Integers, Sequences, FiniteSets, TLC

(* ------------------------------------------------------------------ *)
(* Bounds                                                              *)
(* ------------------------------------------------------------------ *)
MaxCams == 2
MaxSessions == 3

(* ------------------------------------------------------------------ *)
(* Names and their lexicographic order                                 *)
(* ------------------------------------------------------------------ *)
\* All names the model uses, in ascending lexicographic (str.__lt__) order.
NameOrder ==
  <<"Camera0", "Camera1", "Camera2", "Camera3",
    "table2_low", "table2_mid", "table2_top", "table3_low", "table3_mid">>

Rank(n) == CHOOSE i \in 1..Len(NameOrder) : NameOrder[i] = n

CamNames == {"Camera0", "Camera1", "Camera2"}

SeqRange(s) == {s[i] : i \in 1..Len(s)}

\* Sequences without repetition over S of length at most n (dict key orders).
RECURSIVE KeyOrders(_, _)
KeyOrders(S, n) ==
  IF n = 0 \/ S = {} THEN {<<>>}
  ELSE {<<>>} \cup UNION {{<<x>> \o t : t \in KeyOrders(S \ {x}, n - 1)} : x \in S}

Perms(S) == {p \in KeyOrders(S, Cardinality(S)) : Len(p) = Cardinality(S)}

\* sorted(names): ascending by string order.
RECURSIVE sorted(_)
sorted(S) ==
  IF S = {} THEN <<>>
  ELSE LET m == CHOOSE x \in S : \A y \in S : Rank(x) <= Rank(y)
       IN <<m>> \o sorted(S \ {m})

(* ------------------------------------------------------------------ *)
(* Results of calls that may raise                                     *)
(* ------------------------------------------------------------------ *)
Ok(v) == [kind |-> "ok", value |-> v]
Raise(e) == [kind |-> "raise", exc |-> e]

(* ------------------------------------------------------------------ *)
(* numpy operations on 2-D integer arrays                              *)
(* ------------------------------------------------------------------ *)
NRows(A) == Len(A)
NCols(A) == Len(A[1])

RECURSIVE Dot(_, _, _, _, _)
Dot(A, B, i, j, k) ==
  IF k = 0 THEN 0 ELSE A[i][k] * B[k][j] + Dot(A, B, i, j, k - 1)

\* A @ B for 2-D arrays; ValueError on mismatched inner dimensions.
MatMul(A, B) ==
  IF NCols(A) # NRows(B) THEN Raise("ValueError")
  ELSE Ok([i \in 1..NRows(A) |-> [j \in 1..NCols(B) |-> Dot(A, B, i, j, NCols(A))]])

Minor(M, i, j) ==
  [r \in 1..(Len(M) - 1) |->
     [c \in 1..(Len(M) - 1) |->
        M[IF r < i THEN r ELSE r + 1][IF c < j THEN c ELSE c + 1]]]

Sign(k) == IF k % 2 = 0 THEN 1 ELSE -1

RECURSIVE Det(_)
RECURSIVE DetRow(_, _)
DetRow(M, j) ==
  IF j = 0 THEN 0
  ELSE Sign(1 + j) * M[1][j] * Det(Minor(M, 1, j)) + DetRow(M, j - 1)
Det(M) == IF Len(M) = 1 THEN M[1][1] ELSE DetRow(M, Len(M))

\* np.linalg.inv: LinAlgError unless the array is square and non-singular.
Inv(M) ==
  IF NRows(M) # NCols(M) THEN Raise("LinAlgError")
  ELSE LET d == Det(M) IN
       IF d = 0 THEN Raise("LinAlgError")
       ELSE Ok([i \in 1..Len(M) |-> [j \in 1..Len(M) |->
                 (Sign(i + j) * Det(Minor(M, j, i))) \div d]])

\* np.diag([...]) for a 4-vector.
Diag4(a, b, c, d) ==
  << <<a, 0, 0, 0>>, <<0, b, 0, 0>>, <<0, 0, c, 0>>, <<0, 0, 0, d>> >>

\* T[:3, :3] and T[:3, 3]
Block33(T) == [i \in 1..3 |-> [j \in 1..3 |-> T[i][j]]]
Col3(T) == [i \in 1..3 |-> T[i][4]]

(* ------------------------------------------------------------------ *)
(* rig_sfm_custom.py                                                   *)
(* ------------------------------------------------------------------ *)
\* A quarter turn about X instead of the flip of Y and Z.
blender_to_colmap_matrix_mut ==
  << <<1, 0, 0, 0>>, <<0, 0, -1, 0>>, <<0, 1, 0, 0>>, <<0, 0, 0, 1>> >>

blender_to_colmap_matrix == Diag4(1, -1, -1, 1)

\* M @ B2C, the conversion applied to every Blender world matrix.
convert(M) == MatMul(M, blender_to_colmap_matrix)

NoneValue == [kind |-> "None"]
Rigid3d(R, t) == [kind |-> "Rigid3d", rotation |-> R, translation |-> t]

RigConfigCamera(ref_sensor, image_prefix, cam_from_rig) ==
  [ref_sensor |-> ref_sensor, image_prefix |-> image_prefix,
   cam_from_rig |-> cam_from_rig]

\* Lines 50-54: the reference camera actually used.
ref_camera(blender_cameras, ref_camera_name) ==
  IF ref_camera_name \in SeqRange(blender_cameras.keys)
  THEN ref_camera_name
  ELSE blender_cameras.keys[1]

\* The product taken in the other order: inv(M_ref_w) @ M_cam_w.
cam_from_rig_of_mut(M_blender, M_ref_w) ==
  LET M_cam_w == MatMul(M_blender, Diag4(1, -1, -1, 1)) IN
  IF M_cam_w.kind = "raise" THEN M_cam_w
  ELSE LET M_ref_w_inv == Inv(M_ref_w) IN
       IF M_ref_w_inv.kind = "raise" THEN M_ref_w_inv
       ELSE LET T_c_r == MatMul(M_ref_w_inv.value, M_cam_w.value) IN
            IF T_c_r.kind = "raise" THEN T_c_r
            ELSE Ok(Rigid3d(Block33(T_c_r.value), Col3(T_c_r.value)))

\* Lines 96-114: T_c_r = inv(M_cam_w) @ M_ref_w packaged as a Rigid3d.
cam_from_rig_of(M_blender, M_ref_w) ==
  LET M_cam_w == convert(M_blender) IN
  IF M_cam_w.kind = "raise" THEN M_cam_w
  ELSE LET M_cam_w_inv == Inv(M_cam_w.value) IN
       IF M_cam_w_inv.kind = "raise" THEN M_cam_w_inv
       ELSE LET T_c_r == MatMul(M_cam_w_inv.value, M_ref_w) IN
            IF T_c_r.kind = "raise" THEN T_c_r
            ELSE Ok(Rigid3d(Block33(T_c_r.value), Col3(T_c_r.value)))

LogRec(level, msg, args) == [level |-> level, msg |-> msg, args |-> args]

\* The reference camera not special-cased: its transform is computed too.
rig_camera_mut(folder, blender_cameras, ref, M_ref_w, cam_name) ==
  LET prefix == folder \o "/" \o cam_name \o "/"
      cam_from_rig == cam_from_rig_of(blender_cameras.vals[cam_name], M_ref_w)
  IN IF cam_from_rig.kind = "raise" THEN cam_from_rig
     ELSE Ok(RigConfigCamera(cam_name = ref, prefix, cam_from_rig.value))

\* Lines 90-128: the RigConfigCamera built for one camera of the loop.
rig_camera(folder, blender_cameras, ref, M_ref_w, cam_name) ==
  LET prefix == folder \o "/" \o cam_name \o "/"
      cam_from_rig == IF cam_name = ref THEN Ok(NoneValue)
                      ELSE cam_from_rig_of(blender_cameras.vals[cam_name], M_ref_w)
  IN IF cam_from_rig.kind = "raise" THEN cam_from_rig
     ELSE Ok(RigConfigCamera(cam_name = ref, prefix, cam_from_rig.value))

\* Lines 82-129: the loop over names[i..], in order.  Carries the log lines
\* written before it returns or raises.
RECURSIVE rig_loop(_, _, _, _, _, _)
rig_loop(folder, blender_cameras, ref, M_ref_w, names, i) ==
  IF i > Len(names) THEN [kind |-> "ok", value |-> <<>>, log |-> <<>>]
  ELSE
    LET cam_name == names[i]
        cam == rig_camera(folder, blender_cameras, ref, M_ref_w, cam_name)
        line == IF cam_name = ref THEN <<>>
                ELSE <<LogRec("INFO", "rig_geometry", <<cam_name, ref>>)>>
    IN IF cam.kind = "raise"
       THEN [kind |-> "raise", exc |-> cam.exc, log |-> <<>>]
       ELSE LET rest == rig_loop(folder, blender_cameras, ref, M_ref_w, names, i + 1)
            IN IF rest.kind = "raise"
               THEN [kind |-> "raise", exc |-> rest.exc, log |-> line \o rest.log]
               ELSE [kind |-> "ok", value |-> <<cam.value>> \o rest.value,
                     log |-> line \o rest.log]

\* compute_rig_config(folder_path, blender_cameras, ref_camera_name).
\* blender_cameras is a dict: keys in insertion order, vals by key.
\* Returns None, a raise, or the RigConfig together with the reference
\* name that line 56 logs; log holds the lines written by the call.
compute_rig_config(folder, blender_cameras, ref_camera_name) ==
  IF ref_camera_name \notin SeqRange(blender_cameras.keys)
     /\ blender_cameras.keys = <<>>
  THEN [kind |-> "none", log |-> <<>>]
  ELSE
    LET ref == ref_camera(blender_cameras, ref_camera_name)
        creating == <<LogRec("INFO", "creating_rig_config", <<folder, ref>>)>>
        M_ref_w == convert(blender_cameras.vals[ref])
    IN IF M_ref_w.kind = "raise"
       THEN [kind |-> "raise", exc |-> M_ref_w.exc, log |-> creating]
       ELSE LET M_ref_w_inv == Inv(M_ref_w.value) IN
            IF M_ref_w_inv.kind = "raise"
            THEN [kind |-> "raise", exc |-> M_ref_w_inv.exc, log |-> creating]
            ELSE LET sorted_cam_names == sorted(SeqRange(blender_cameras.keys))
                     cams == rig_loop(folder, blender_cameras, ref,
                                      M_ref_w.value, sorted_cam_names, 1)
                 IN IF cams.kind = "raise"
                    THEN [kind |-> "raise", exc |-> cams.exc,
                          log |-> creating \o cams.log]
                    ELSE [kind |-> "ok", ref |-> ref,
                          config |-> [cameras |-> cams.value],
                          log |-> creating \o cams.log]

\* load_blender_cameras(json_path) on the content of an existing file.
\* A document is unparseable text or a JSON object: keys in document order,
\* entries by key, each with or without a "matrix_world" member.
load_blender_cameras(doc) ==
  IF doc.kind = "unparseable" THEN Raise("JSONDecodeError")
  ELSE IF \E n \in SeqRange(doc.keys) : ~doc.entries[n].has_matrix_world
       THEN Raise("KeyError")
       ELSE Ok([keys |-> doc.keys,
                vals |-> [n \in SeqRange(doc.keys) |-> doc.entries[n].matrix_world]])

(* ------------------------------------------------------------------ *)
(* Input values                                                        *)
(* ------------------------------------------------------------------ *)
Affine(R, t) ==
  << <<R[1][1], R[1][2], R[1][3], t[1]>>,
     <<R[2][1], R[2][2], R[2][3], t[2]>>,
     <<R[3][1], R[3][2], R[3][3], t[3]>>,
     <<0, 0, 0, 1>> >>

I3 == << <<1, 0, 0>>, <<0, 1, 0>>, <<0, 0, 1>> >>
RotZ90 == << <<0, -1, 0>>, <<1, 0, 0>>, <<0, 0, 1>> >>
RotX90 == << <<1, 0, 0>>, <<0, 0, -1>>, <<0, 1, 0>> >>
Mirror3 == << <<1, 0, 0>>, <<0, 1, 0>>, <<0, 0, -1>> >>
Shear3 == << <<1, 1, 0>>, <<0, 1, 0>>, <<0, 0, 1>> >>
Flat3 == << <<1, 0, 0>>, <<0, 1, 0>>, <<0, 0, 0>> >>

Identity4 == Affine(I3, <<0, 0, 0>>)
TranslateX == Affine(I3, <<1, 0, 0>>)
TurnZ == Affine(RotZ90, <<0, 1, 0>>)
TurnX == Affine(RotX90, <<0, -1, 2>>)
Mirrored == Affine(Mirror3, <<0, 0, 1>>)
Sheared == Affine(Shear3, <<0, 0, 0>>)
Singular == Affine(Flat3, <<1, 0, 0>>)
WrongShape == I3

\* Poses a cameras.json can hold: rigid, improper, non-orthonormal,
\* singular, and not 4x4.
PoseValues ==
  {Identity4, TranslateX, TurnZ, TurnX, Mirrored, Sheared, Singular, WrongShape}

Transpose(M) == [i \in 1..NCols(M) |-> [j \in 1..NRows(M) |-> M[j][i]]]

\* A 4x4 array whose rotation block is a proper rotation and whose bottom
\* row is [0, 0, 0, 1].
IsRigid(M) ==
  /\ NRows(M) = 4 /\ NCols(M) = 4
  /\ M[4] = <<0, 0, 0, 1>>
  /\ MatMul(Transpose(Block33(M)), Block33(M)).value = I3
  /\ Det(Block33(M)) = 1

\* Valid geometry of a camera: its converted pose is rigid.
ValidGeometry(M) ==
  /\ NRows(M) = 4 /\ NCols(M) = 4
  /\ IsRigid(convert(M).value)

\* The dicts compute_rig_config can be called with.
CameraDicts(names, poses, n) ==
  UNION {{[keys |-> k, vals |-> v] : v \in [SeqRange(k) -> poses]}
         : k \in KeyOrders(names, n)}

(* ------------------------------------------------------------------ *)
(* Documents found on disk by run()                                    *)
(* ------------------------------------------------------------------ *)
Entry(M) == [has_matrix_world |-> TRUE, matrix_world |-> M]
EntryWithoutMatrix == [has_matrix_world |-> FALSE, matrix_world |-> <<>>]

JsonDoc(keys, entries) == [kind |-> "json", keys |-> keys, entries |-> entries]

AbsentDoc == [kind |-> "absent"]
UnparseableDoc == [kind |-> "unparseable"]
DocEmpty == JsonDoc(<<>>, <<>>)
DocPair ==
  JsonDoc(<<"Camera1", "Camera0">>,
          [n \in {"Camera0", "Camera1"} |->
             IF n = "Camera0" THEN Entry(Identity4) ELSE Entry(TranslateX)])
DocNoRef ==
  JsonDoc(<<"Camera2", "Camera1">>,
          [n \in {"Camera1", "Camera2"} |->
             IF n = "Camera1" THEN Entry(TurnZ) ELSE Entry(Identity4)])
DocSingular ==
  JsonDoc(<<"Camera0", "Camera1">>,
          [n \in {"Camera0", "Camera1"} |->
             IF n = "Camera0" THEN Entry(Identity4) ELSE Entry(Singular)])
DocWrongShape ==
  JsonDoc(<<"Camera0", "Camera1">>,
          [n \in {"Camera0", "Camera1"} |->
             IF n = "Camera0" THEN Entry(Identity4) ELSE Entry(WrongShape)])
DocNoMatrix ==
  JsonDoc(<<"Camera0", "Camera1">>,
          [n \in {"Camera0", "Camera1"} |->
             IF n = "Camera0" THEN Entry(Identity4) ELSE EntryWithoutMatrix])

\* What a session folder's cameras.json can be.
RunDocs ==
  {AbsentDoc, UnparseableDoc, DocEmpty, DocPair, DocNoRef, DocSingular,
   DocWrongShape, DocNoMatrix}

SessionNames ==
  <<"table2_low", "table2_mid", "table2_top", "table3_low", "table3_mid">>

Min(a, b) == IF a < b THEN a ELSE b

Sessions == {SessionNames[i] : i \in 1..Min(MaxSessions, Len(SessionNames))}

(* ------------------------------------------------------------------ *)
(* State                                                               *)
(* ------------------------------------------------------------------ *)
VARIABLES
  pc,           \* position of run()
  db_exists,    \* database.db exists under output_path
  root,         \* the subdirectories of input_path
  subdirs,      \* the list built on line 152
  idx,          \* position of the for loop of line 155 in subdirs
  read,         \* cameras.json of each folder the loop has looked at
  rig_configs,  \* the list of line 149
  log,          \* records written through logging
  calls,        \* engine stages invoked so far, with their outcome
  exception,    \* the exception that ended run(), or "none"
  rpc,          \* position of a direct call of compute_rig_config
  in_cameras,   \* its blender_cameras argument
  in_ref,       \* its ref_camera_name argument
  out,          \* its result
  M_in,         \* a world matrix to convert
  M_out,        \* the matrix after nconv conversions
  nconv         \* conversions applied to M_in

runVars == <<pc, db_exists, root, subdirs, idx, read, rig_configs, log, calls,
             exception>>
rigVars == <<rpc, in_cameras, in_ref, out>>
convVars == <<M_in, M_out, nconv>>
vars == <<pc, db_exists, root, subdirs, idx, read, rig_configs, log, calls,
          exception, rpc, in_cameras, in_ref, out, M_in, M_out, nconv>>

EmptyDict == [keys |-> <<>>, vals |-> <<>>]

RunIdle ==
  /\ pc = "idle" /\ db_exists = FALSE /\ root = {} /\ subdirs = <<>>
  /\ idx = 1 /\ read = <<>> /\ rig_configs = <<>> /\ log = <<>>
  /\ calls = <<>> /\ exception = "none"

RigIdle ==
  /\ rpc = "idle" /\ in_cameras = EmptyDict /\ in_ref = "Camera0"
  /\ out = [kind |-> "none", log |-> <<>>]

ConvIdle == M_in = Identity4 /\ M_out = Identity4 /\ nconv = 0

(* ------------------------------------------------------------------ *)
(* run(args)                                                           *)
(* ------------------------------------------------------------------ *)
Init ==
  /\ pc = "start"
  /\ db_exists \in BOOLEAN
  /\ root \in SUBSET Sessions
  /\ subdirs = <<>> /\ idx = 1 /\ read = <<>>
  /\ rig_configs = <<>> /\ log = <<>> /\ calls = <<>> /\ exception = "none"
  /\ RigIdle /\ ConvIdle

Call(stage, ok) == [stage |-> stage, ok |-> ok]

\* Lines 143-149: create output_path, remove a stale database, empty list.
ResetDatabase ==
  /\ pc = "start"
  /\ db_exists' = FALSE
  /\ rig_configs' = <<>>
  /\ calls' = Append(calls, Call("reset_database", TRUE))
  /\ pc' = "list"
  /\ UNCHANGED <<root, subdirs, idx, read, log, exception>>
  /\ UNCHANGED rigVars /\ UNCHANGED convVars

\* Lines 152-153: iterdir() yields the folders in an arbitrary order.
ListSubdirs ==
  /\ pc = "list"
  /\ \E order \in Perms(root) :
       /\ subdirs' = order
       /\ log' = Append(log, LogRec("INFO", "found_subdirectories", <<Len(order)>>))
  /\ idx' = 1
  /\ pc' = "scan"
  /\ UNCHANGED <<db_exists, root, read, rig_configs, calls, exception>>
  /\ UNCHANGED rigVars /\ UNCHANGED convVars

\* The loop without the exists() test of line 157: opening a missing
\* cameras.json raises.
ScanFolder_mut(subdir, doc) ==
  IF doc.kind = "absent"
  THEN /\ pc' = "raised"
       /\ exception' = "FileNotFoundError"
       /\ UNCHANGED <<idx, rig_configs, log>>
  ELSE LET blender_cameras == load_blender_cameras(doc) IN
       IF blender_cameras.kind = "raise"
       THEN /\ pc' = "raised"
            /\ exception' = blender_cameras.exc
            /\ UNCHANGED <<idx, rig_configs, log>>
       ELSE LET rig_config ==
                  compute_rig_config(subdir, blender_cameras.value, "Camera0")
            IN /\ log' = log \o rig_config.log
               /\ IF rig_config.kind = "raise"
                  THEN /\ pc' = "raised"
                       /\ exception' = rig_config.exc
                       /\ UNCHANGED <<idx, rig_configs>>
                  ELSE /\ rig_configs' =
                            IF rig_config.kind = "ok"
                            THEN Append(rig_configs, rig_config.config)
                            ELSE rig_configs
                       /\ idx' = idx + 1
                       /\ UNCHANGED <<pc, exception>>

\* Lines 155-164: one iteration of the loop, on a folder whose cameras.json
\* is doc.
ScanFolder(subdir, doc) ==
  IF doc.kind = "absent"
  THEN /\ log' = Append(log, LogRec("WARNING", "no_cameras_json", <<subdir>>))
       /\ idx' = idx + 1
       /\ UNCHANGED <<pc, rig_configs, exception>>
  ELSE LET blender_cameras == load_blender_cameras(doc) IN
       IF blender_cameras.kind = "raise"
       THEN /\ pc' = "raised"
            /\ exception' = blender_cameras.exc
            /\ UNCHANGED <<idx, rig_configs, log>>
       ELSE LET rig_config ==
                  compute_rig_config(subdir, blender_cameras.value, "Camera0")
            IN /\ log' = log \o rig_config.log
               /\ IF rig_config.kind = "raise"
                  THEN /\ pc' = "raised"
                       /\ exception' = rig_config.exc
                       /\ UNCHANGED <<idx, rig_configs>>
                  ELSE /\ rig_configs' =
                            IF rig_config.kind = "ok"
                            THEN Append(rig_configs, rig_config.config)
                            ELSE rig_configs
                       /\ idx' = idx + 1
                       /\ UNCHANGED <<pc, exception>>

ScanStep ==
  /\ pc = "scan"
  /\ idx <= Len(subdirs)
  /\ \E doc \in RunDocs :
       /\ read' = [s \in DOMAIN read \cup {subdirs[idx]} |->
                     IF s = subdirs[idx] THEN doc ELSE read[s]]
       /\ ScanFolder(subdirs[idx], doc)
  /\ UNCHANGED <<db_exists, root, subdirs, calls>>
  /\ UNCHANGED rigVars /\ UNCHANGED convVars

\* Lines 166-167: the loop is over.
ScanDone ==
  /\ pc = "scan"
  /\ idx > Len(subdirs)
  /\ log' = IF rig_configs = <<>>
            THEN Append(log, LogRec("WARNING", "no_valid_rig_configurations", <<>>))
            ELSE log
  /\ pc' = "extract"
  /\ UNCHANGED <<db_exists, root, subdirs, idx, read, rig_configs, calls, exception>>
  /\ UNCHANGED rigVars /\ UNCHANGED convVars

\* An engine call either returns or raises; a raise leaves run().
EngineCall(stage, next) ==
  \E ok \in BOOLEAN :
    /\ calls' = Append(calls, Call(stage, ok))
    /\ pc' = IF ok THEN next ELSE "raised"
    /\ exception' = IF ok THEN exception ELSE "ExternalEngineFailure"

\* Lines 173-181.
ExtractFeatures ==
  /\ pc = "extract"
  /\ EngineCall("extract_features", "apply")
  /\ db_exists' = TRUE
  /\ log' = Append(log, LogRec("INFO", "extracting_features", <<>>))
  /\ UNCHANGED <<root, subdirs, idx, read, rig_configs>>
  /\ UNCHANGED rigVars /\ UNCHANGED convVars

\* The rig configurations applied without the test of line 184.
ApplyRigConfig_mut ==
  /\ pc = "apply"
  /\ EngineCall("apply_rig_config", "match")
  /\ log' = Append(log, LogRec("INFO", "applying_rig_configurations",
                               <<Len(rig_configs)>>))
  /\ UNCHANGED <<db_exists, root, subdirs, idx, read, rig_configs>>
  /\ UNCHANGED rigVars /\ UNCHANGED convVars

\* Lines 184-187.
ApplyRigConfig ==
  /\ pc = "apply"
  /\ IF rig_configs # <<>>
     THEN /\ EngineCall("apply_rig_config", "match")
          /\ log' = Append(log, LogRec("INFO", "applying_rig_configurations",
                                       <<Len(rig_configs)>>))
     ELSE /\ pc' = "match"
          /\ UNCHANGED <<calls, exception, log>>
  /\ UNCHANGED <<db_exists, root, subdirs, idx, read, rig_configs>>
  /\ UNCHANGED rigVars /\ UNCHANGED convVars

\* Lines 190-195.
MatchFeatures ==
  /\ pc = "match"
  /\ EngineCall("match_vocabtree", "map")
  /\ log' = Append(log, LogRec("INFO", "matching_features", <<>>))
  /\ UNCHANGED <<db_exists, root, subdirs, idx, read, rig_configs>>
  /\ UNCHANGED rigVars /\ UNCHANGED convVars

\* Lines 198-214.
IncrementalMapping ==
  /\ pc = "map"
  /\ EngineCall("incremental_mapping", "done")
  /\ log' = Append(log, LogRec("INFO", "starting_incremental_mapping", <<>>))
             \o (IF pc' = "done" THEN <<LogRec("INFO", "done", <<>>)>> ELSE <<>>)
  /\ UNCHANGED <<db_exists, root, subdirs, idx, read, rig_configs>>
  /\ UNCHANGED rigVars /\ UNCHANGED convVars

Next ==
  \/ ResetDatabase
  \/ ListSubdirs
  \/ ScanStep
  \/ ScanDone
  \/ ExtractFeatures
  \/ ApplyRigConfig
  \/ MatchFeatures
  \/ IncrementalMapping

Spec == Init /\ [][Next]_vars

(* ------------------------------------------------------------------ *)
(* compute_rig_config called on its own                                *)
(* ------------------------------------------------------------------ *)
RefNames == {"Camera0", "Camera2"}

InitRig ==
  /\ RunIdle /\ ConvIdle
  /\ rpc = "call"
  /\ in_cameras \in CameraDicts(CamNames, PoseValues, MaxCams)
  /\ in_ref \in RefNames
  /\ out = [kind |-> "none", log |-> <<>>]

Derive ==
  /\ rpc = "call"
  /\ out' = compute_rig_config("table2_low", in_cameras, in_ref)
  /\ rpc' = "returned"
  /\ UNCHANGED <<in_cameras, in_ref>>
  /\ UNCHANGED runVars /\ UNCHANGED convVars

NextRig == Derive

SpecRig == InitRig /\ [][NextRig]_vars

(* ------------------------------------------------------------------ *)
(* compute_rig_config on pairs of rigid poses                          *)
(* ------------------------------------------------------------------ *)
\* The 24 proper signed-permutation rotations.
Rotations ==
  {R \in [1..3 -> [1..3 -> {-1, 0, 1}]] :
     /\ \A i \in 1..3 : Cardinality({j \in 1..3 : R[i][j] # 0}) = 1
     /\ \A j \in 1..3 : Cardinality({i \in 1..3 : R[i][j] # 0}) = 1
     /\ Det(R) = 1}

Shifts == {<<0, 0, 0>>, <<1, 0, 0>>, <<0, -1, 2>>}

RigidPoses == {Affine(R, t) : R \in Rotations, t \in Shifts}

InitRoundTrip ==
  /\ RunIdle /\ ConvIdle
  /\ rpc = "call"
  /\ \E v \in [{"Camera0", "Camera1"} -> RigidPoses] :
       in_cameras = [keys |-> <<"Camera0", "Camera1">>, vals |-> v]
  /\ in_ref \in {"Camera0", "Camera1"}
  /\ out = [kind |-> "none", log |-> <<>>]

SpecRoundTrip == InitRoundTrip /\ [][NextRig]_vars

(* ------------------------------------------------------------------ *)
(* The coordinate conversion applied repeatedly                        *)
(* ------------------------------------------------------------------ *)
MaxShift == 1

Blocks == {I3, RotZ90, RotX90, Mirror3, Shear3, Flat3,
           << <<2, -1, 3>>, <<1, 1, -2>>, <<-3, 2, 1>> >>}

BottomRows == {<<0, 0, 0, 1>>, <<1, -1, 2, 3>>}

ConvInputs ==
  {[i \in 1..4 |-> IF i = 4 THEN b ELSE Affine(R, t)[i]] :
     R \in Blocks, t \in [1..3 -> -MaxShift..MaxShift], b \in BottomRows}

InitConvert ==
  /\ RunIdle /\ RigIdle
  /\ M_in \in ConvInputs
  /\ M_out = M_in
  /\ nconv = 0

Convert ==
  /\ nconv < 2
  /\ M_out' = convert(M_out).value
  /\ nconv' = nconv + 1
  /\ UNCHANGED M_in
  /\ UNCHANGED runVars /\ UNCHANGED rigVars

NextConvert == Convert

SpecConvert == InitConvert /\ [][NextConvert]_vars

(* ------------------------------------------------------------------ *)
(* Properties of compute_rig_config                                    *)
(* ------------------------------------------------------------------ *)
KeySet == SeqRange(in_cameras.keys)

\* The reference name the call logged on line 56.
LoggedRef == out.log[1].args[2]

Returned == rpc = "returned"

\* C1: when the preferred reference name is not a key of a non-empty
\* mapping, the reference camera of the descriptor is the lexicographically
\* smallest key.
C1_FallbackIsSmallest ==
  (Returned /\ out.kind = "ok" /\ in_ref \notin KeySet)
    => /\ out.ref = sorted(KeySet)[1]
       /\ LoggedRef = sorted(KeySet)[1]

\* C2: the result of compute_rig_config does not depend on the order of the
\* keys of the mapping: every reordering of the same (name, pose) pairs gives
\* the same reference and the same descriptor.
C2_OrderIndependent ==
  (Returned /\ out.kind = "ok") =>
    \A order \in Perms(KeySet) :
       compute_rig_config("table2_low",
                          [keys |-> order, vals |-> in_cameras.vals],
                          in_ref) = out

AllFourByFour ==
  \A n \in KeySet : NRows(in_cameras.vals[n]) = 4 /\ NCols(in_cameras.vals[n]) = 4

Prefix(n) == "table2_low" \o "/" \o n \o "/"

\* C4: with a reference camera of valid geometry the descriptor holds exactly
\* the cameras of valid geometry; with a reference camera of invalid geometry
\* the call yields no descriptor and does not end the run with an exception.
C4_GeometryContained ==
  (Returned /\ in_cameras.keys # <<>> /\ AllFourByFour) =>
    IF ValidGeometry(in_cameras.vals[ref_camera(in_cameras, in_ref)])
    THEN /\ out.kind = "ok"
         /\ {out.config.cameras[i].image_prefix :
               i \in 1..Len(out.config.cameras)}
            = {Prefix(n) : n \in {m \in KeySet : ValidGeometry(in_cameras.vals[m])}}
    ELSE out.kind = "none"

\* C7: every descriptor returned has exactly one entry marked as reference,
\* that entry has no cam_from_rig, and every other entry is not marked and
\* has a cam_from_rig.
C7_OneReference ==
  (Returned /\ out.kind = "ok") =>
    LET cams == out.config.cameras IN
    /\ Cardinality({i \in 1..Len(cams) : cams[i].ref_sensor}) = 1
    /\ \A i \in 1..Len(cams) :
         IF cams[i].ref_sensor
         THEN cams[i].cam_from_rig = NoneValue
         ELSE cams[i].cam_from_rig.kind = "Rigid3d"

C7_Witness ==
  /\ Returned /\ out.kind = "ok"
  /\ in_ref \notin KeySet
  /\ Len(out.config.cameras) = 2
  /\ out.config.cameras[2].ref_sensor

\* C8: for rigid poses, the transform T of every non-reference camera B
\* satisfies M_B * T = M_ref and M_ref * inverse(T) = M_B, with M the
\* converted world matrices.
C8_RoundTrip ==
  Returned =>
    /\ out.kind = "ok"
    /\ LET names == sorted(KeySet)
           cams == out.config.cameras
           M_ref == convert(in_cameras.vals[out.ref]).value
       IN \A i \in 1..Len(cams) :
            ~cams[i].ref_sensor =>
              LET T == Affine(cams[i].cam_from_rig.rotation,
                              cams[i].cam_from_rig.translation)
                  M_B == convert(in_cameras.vals[names[i]]).value
              IN /\ MatMul(M_B, T).value = M_ref
                 /\ MatMul(M_ref, Inv(T).value).value = M_B

C8_Witness ==
  /\ Returned /\ out.kind = "ok"
  /\ in_ref = "Camera1"
  /\ in_cameras.vals["Camera0"] = Affine(RotZ90, <<0, -1, 2>>)
  /\ in_cameras.vals["Camera1"] = Affine(RotX90, <<1, 0, 0>>)
  /\ out.config.cameras[1].cam_from_rig.kind = "Rigid3d"
  /\ out.config.cameras[1].cam_from_rig.rotation # I3

(* ------------------------------------------------------------------ *)
(* Properties of the conversion                                        *)
(* ------------------------------------------------------------------ *)
\* C9: converting a world matrix twice gives the matrix back.
C9_Involution == nconv = 2 => M_out = M_in

C9_Witness ==
  /\ nconv = 2
  /\ M_in[4] # <<0, 0, 0, 1>>
  /\ M_in[1][2] # 0 /\ M_in[2][3] # 0
  /\ convert(M_in).value # M_in

(* ------------------------------------------------------------------ *)
(* Properties of run()                                                 *)
(* ------------------------------------------------------------------ *)
FourByFour(M) == NRows(M) = 4 /\ NCols(M) = 4

\* A document that is not valid JSON or has an entry without a 4x4
\* matrix_world.
Malformed(doc) ==
  \/ doc.kind = "unparseable"
  \/ /\ doc.kind = "json"
     /\ \E n \in SeqRange(doc.keys) :
          \/ ~doc.entries[n].has_matrix_world
          \/ ~FourByFour(doc.entries[n].matrix_world)

ScanRaised == pc = "raised" /\ exception # "ExternalEngineFailure"

PastScan == pc \in {"extract", "apply", "match", "map", "done"}
              \/ (pc = "raised" /\ exception = "ExternalEngineFailure")

\* C3: a folder with a malformed cameras.json does not end the run: the scan
\* goes on to the other folders and to feature extraction.
C3_MalformedSkipped ==
  \A s \in DOMAIN read : Malformed(read[s]) => ~ScanRaised

SkipWarnings(s) ==
  {i \in 1..Len(log) : log[i] = LogRec("WARNING", "no_cameras_json", <<s>>)}

WithCameras == {s \in DOMAIN read : read[s].kind = "json" /\ read[s].keys # <<>>}

\* C5: a folder without cameras.json never raises and is skipped with exactly
\* one warning (no other folder gets that warning), and a scan that reaches
\* its end has collected one descriptor per folder whose cameras.json holds
\* at least one camera.
C5_MissingDocsSkipped ==
  /\ \A s \in root :
       Cardinality(SkipWarnings(s)) =
         IF s \in DOMAIN read /\ read[s].kind = "absent" THEN 1 ELSE 0
  /\ ScanRaised => read[subdirs[idx]].kind # "absent"
  /\ PastScan => /\ DOMAIN read = root
                 /\ Len(rig_configs) = Cardinality(WithCameras)

C5_Witness ==
  /\ pc = "extract"
  /\ Cardinality(root) = 3
  /\ Cardinality({s \in root : read[s].kind = "absent"}) = 1
  /\ Len(rig_configs) = 2
  /\ Cardinality({i \in 1..Len(log) : log[i].msg = "no_cameras_json"}) = 1

StageOrder ==
  <<"reset_database", "extract_features">>
    \o (IF rig_configs # <<>> THEN <<"apply_rig_config">> ELSE <<>>)
    \o <<"match_vocabtree", "incremental_mapping">>

\* C6: the stages run in the order reset, extraction, rig application,
\* matching, mapping; rig application runs exactly when a descriptor was
\* collected; a stage that fails is the last one invoked and the run ends in
\* failure.
C6_StagesInOrder ==
  /\ Len(calls) <= Len(StageOrder)
  /\ \A i \in 1..Len(calls) : calls[i].stage = StageOrder[i]
  /\ \A i \in 1..Len(calls) :
       ~calls[i].ok => (i = Len(calls) /\ pc = "raised")
  /\ (pc \in {"match", "map", "done"} /\ rig_configs # <<>>)
       => \E i \in 1..Len(calls) : calls[i].stage = "apply_rig_config"
  /\ pc = "done" => Len(calls) = Len(StageOrder)

C6_Witness ==
  /\ pc = "raised"
  /\ Len(calls) = 4
  /\ calls[3] = Call("apply_rig_config", TRUE)
  /\ calls[4] = Call("match_vocabtree", FALSE)

RECURSIVE ConfigsOf(_, _)
ConfigsOf(names, i) ==
  IF i > Len(names) THEN <<>>
  ELSE <<compute_rig_config(names[i],
                            load_blender_cameras(read[names[i]]).value,
                            "Camera0").config>>
       \o ConfigsOf(names, i + 1)

\* C10: whatever order the folders are enumerated in, the list of descriptors
\* collected by the scan is in ascending order of folder name.
C10_SortedByFolder ==
  pc = "extract" => rig_configs = ConfigsOf(sorted(WithCameras), 1)
====
